---- MODULE Spec2Model ----
(***************************************************************************)
(* FastProject/Pipelines.py, function Analysis: the pipeline               *)
(*   Subsample -> Filter -> QC -> Background -> Score -> Project (per      *)
(*   filter) -> Prune -> MergeHoldouts -> ReorderGenes -> Done             *)
(* as a state machine.  One action per stage; a stage that raises ends the *)
(* run in pc = "Failed" with nothing returned.                             *)
(*                                                                         *)
(* Units: p-values (sigProjMatrix_p) are log10 values held in tenths, so   *)
(* the source's -1.3 is -13 here.  Python's None is the empty tuple and a  *)
(* present optional value x is <<x>>.  A pandas cell is <<type, value>>.   *)
(***************************************************************************)
EXTENDS Integers, Sequences, FiniteSets, TLC

\* ---------------------------------------------------------------- bounds
SmallBatch == 2        \* size of the small signature batch
ExtraSigs == 1         \* signatures above the output limit in the largest batch
MaxPrecomputed == 1    \* caller-supplied precomputed signatures: 0..MaxPrecomputed
MaxFailQC == 1         \* samples 1..MaxFailQC may fail the quality check
FullOverlap == 10      \* genes a covered signature shares with the matrix
MinGenes == 5          \* kwargs["min_signature_genes"]
FewGenes == 50         \* a gene universe smaller than the largest background size
SubsampleSize == 10    \* a configured kwargs["subsample_size"]

\* ------------------------------------------------------ program constants
SIGNATURE_LIMIT == 200         \* min(200, ...) at line 351
LARGE_DATASET == 2000          \* all_data.shape[1] > 2000 at line 352
DEFAULT_THRESHOLD == -13       \* threshold = -1.3 at line 356, in tenths
KEEP_ALL_THRESHOLD == 999999999 \* threshold = 1e99 at line 349: above every p-value
BG_REPEATS == 3000             \* range(3000) at line 186
BG_MAX_SIZE == 200             \* largest size in [5, 10, 20, 50, 100, 200], line 185

BG_SIZES == <<5, 10, 20, 50, 100, BG_MAX_SIZE>>

\* ------------------------------------------------------------ Python values
None == <<>>
Some(x) == <<x>>
PyBool(b) == <<"bool", IF b THEN 1 ELSE 0>>
PyFloat(x) == <<"float", x>>

\* the same sequence / function, with every element evaluated once
Tuple(s) == s \o <<>>
Table(f) == f @@ <<>>

Min2(a, b) == IF a <= b THEN a ELSE b
Range(s) == {s[i] : i \in 1..Len(s)}

RECURSIVE SeqMin(_)
SeqMin(s) == IF Len(s) = 1 THEN s[1] ELSE Min2(s[1], SeqMin(Tail(s)))

\* ------------------------------------------------------------------ names
SigName(i) == <<"SIG", i>>
PreName(j) == <<"PRECOMPUTED", j>>
FP_Quality == <<"FP_Quality", 0>>
Zero_Proportion == <<"Zero_Proportion", 0>>

NORM_METHODS == {"none", "znorm_columns", "znorm_rows", "znorm_rows_then_columns",
                 "rank_norm_columns"}
SCORE_METHODS == {"naive", "weighted_avg", "imputed", "only_nonzero"}

\* ----------------------------------------------------------------- inputs
SampleCounts == {LARGE_DATASET, LARGE_DATASET + 1}
GeneCounts == {FewGenes, BG_MAX_SIZE}
LargeBatches == {SIGNATURE_LIMIT, SIGNATURE_LIMIT + ExtraSigs}
LowCoverage == {{}, {1}}     \* indices of the signatures with no gene in the matrix

\* signatures: list of Signatures.Signature, here name and gene overlap with the matrix
SignatureList(n, low) ==
    [i \in 1..n |-> [name |-> SigName(i), overlap |-> IF i \in low THEN 0 ELSE FullOverlap]]

\* a Signatures.SignatureScores object (per-sample values left out)
SignatureScores(name, isPrecomputed, numGenes) ==
    [name |-> name, isFactor |-> FALSE, isPrecomputed |-> isPrecomputed, numGenes |-> numGenes]

\* precomputed_signatures: dict name -> SignatureScores, in insertion order
PrecomputedDict(k) == [j \in 1..k |-> SignatureScores(PreName(j), TRUE, 0)]

VARIABLES
    pc,                     \* the stage about to run, or "Done" / "Failed"
    args,                   \* the options as the caller passed them
    kwargs,                 \* the options dict, mutated by Analysis
    all_data,               \* expressionMatrix: [numSamples, numGenes]
    signatures,             \* the real signatures
    precomputed_signatures, \* caller-supplied precomputed scores
    edata,                  \* the working matrix: [col_labels, numGenes, filters]
    holdouts,               \* None, or the held-out samples
    Models,                 \* model name -> model
    qc_info,                \* None, or the DataFrame [index, Score, Passes]
    sample_qc_scores,       \* None, or <<the column of scores>>
    random_sigs,            \* background signatures: list of sizes, BG_REPEATS each
    filter_i,               \* index of the next filter to project
    prePrune,               \* Models as Prune found them
    stagesRun,              \* the stages that have done their work so far, in order
    returned                \* TRUE once Analysis has returned (Models, qc_info)

vars == <<pc, args, kwargs, all_data, signatures, precomputed_signatures, edata, holdouts,
          Models, qc_info, sample_qc_scores, random_sigs, filter_i, prePrune, stagesRun,
          returned>>

\* Two families of inputs: every combination of the options on a small batch of
\* signatures, and batches around the output limit under the options Prune reads.
ConfigSweep ==
    /\ \E ss \in {None, Some(SubsampleSize)}, nm \in BOOLEAN, q \in BOOLEAN, al \in BOOLEAN,
          norm \in {"znorm_rows", "unknown"}, sc \in {"naive", "unknown"} :
         kwargs = [subsample_size |-> ss, threshold |-> None, nomodel |-> nm, qc |-> q,
                   all_sigs |-> al, sig_norm_method |-> norm, sig_score_method |-> sc,
                   min_signature_genes |-> MinGenes]
    /\ \E n \in SampleCounts, g \in GeneCounts : all_data = [numSamples |-> n, numGenes |-> g]
    /\ \E low \in LowCoverage : signatures = SignatureList(SmallBatch, low)

BatchSweep ==
    /\ \E al \in BOOLEAN :
         kwargs = [subsample_size |-> None, threshold |-> None, nomodel |-> TRUE,
                   qc |-> FALSE, all_sigs |-> al, sig_norm_method |-> "rank_norm_columns",
                   sig_score_method |-> "weighted_avg", min_signature_genes |-> MinGenes]
    /\ \E n \in SampleCounts : all_data = [numSamples |-> n, numGenes |-> BG_MAX_SIZE]
    /\ \E n \in LargeBatches, low \in LowCoverage : signatures = SignatureList(n, low)

Init ==
    /\ pc = "Subsample"
    /\ ConfigSweep \/ BatchSweep
    /\ args = kwargs
    /\ \E k \in 0..MaxPrecomputed : precomputed_signatures = PrecomputedDict(k)
    /\ edata = None
    /\ holdouts = None
    /\ Models = <<>>
    /\ qc_info = None
    /\ sample_qc_scores = None
    /\ random_sigs = <<>>
    /\ filter_i = 0
    /\ prePrune = <<>>
    /\ stagesRun = <<>>
    /\ returned = FALSE

\* ------------------------------------------------------------- lines 83-96
\* SubSample.split_samples(edata, size) -> (holdouts, working)
split_samples(n, size) == [holdouts |-> (size + 1)..n, working |-> 1..size]

Subsample ==
    /\ pc = "Subsample"
    /\ LET kw1 == [kwargs EXCEPT !.subsample_size = None]            \* line 88
           split == kw1.subsample_size # None /\ kw1.subsample_size[1] # 0  \* line 91
           cols == IF split
                   THEN split_samples(all_data.numSamples, kw1.subsample_size[1]).working
                   ELSE 1..all_data.numSamples
           thr == IF kw1.threshold = None
                  THEN Some((2 * Cardinality(cols)) \div 10)          \* line 96
                  ELSE kw1.threshold
       IN /\ kwargs' = [kw1 EXCEPT !.threshold = thr]
          /\ holdouts' = IF split
                         THEN Some(split_samples(all_data.numSamples,
                                                 kw1.subsample_size[1]).holdouts)
                         ELSE None
          /\ edata' = [col_labels |-> cols, numGenes |-> all_data.numGenes, filters |-> <<>>]
          /\ stagesRun' = IF split THEN Append(stagesRun, "Subsample") ELSE stagesRun
    /\ pc' = "Filter"
    /\ UNCHANGED <<args, all_data, signatures, precomputed_signatures, Models, qc_info,
                   sample_qc_scores, random_sigs, filter_i, prePrune, returned>>

\* ------------------------------------------------------------ lines 98-108
\* Filters.apply_filters: attaches the named filters to the matrix
apply_filters(data) == [data EXCEPT !.filters = <<"No_Filter">>]

NewModel(data) ==
    [Data |-> data, signatureScores |-> <<>>, projectionData |-> <<>>, sampleLabels |-> {}]

Filter ==
    /\ pc = "Filter"
    /\ edata' = apply_filters(edata)
    /\ Models' = ("Expression" :> NewModel(edata'))
    /\ stagesRun' = Append(stagesRun, "Filter")
    /\ pc' = "QC"
    /\ UNCHANGED <<args, kwargs, all_data, signatures, precomputed_signatures, holdouts,
                   qc_info, sample_qc_scores, random_sigs, filter_i, prePrune, returned>>

\* ---------------------------------------------------------- lines 110-157
\* A per-sample column (numpy vector, DataFrame column): the value most samples
\* hold and the samples that hold another one.
Column(default, other) == [default |-> default, other |-> other]
At(col, s) == IF s \in DOMAIN col.other THEN col.other[s] ELSE col.default
FloatColumn(col) ==
    Column(PyFloat(col.default), [s \in DOMAIN col.other |-> PyFloat(col.other[s])])
BoolColumn(col) ==
    Column(PyBool(col.default), [s \in DOMAIN col.other |-> PyBool(col.other[s])])
Restrict(col, keep) ==
    Column(col.default, [s \in DOMAIN col.other \cap keep |-> col.other[s]])

\* Transforms.quality_check(params) -> (sample_passes_qc, sample_qc_scores)
quality_check(failing) ==
    [passes |-> Column(TRUE, [s \in failing |-> FALSE]),
     scores |-> Column(10, [s \in failing |-> -20])]

\* matrix.subset_samples(mask)
subset_samples(data, passes) ==
    [data EXCEPT !.col_labels = {s \in data.col_labels : At(passes, s)}]

\* pd.DataFrame({"Score": ..., "Passes": ...}, index=...)
DataFrame(index, score, passes) == [index |-> index, Score |-> score, Passes |-> passes]

QC ==
    /\ pc = "QC"
    /\ IF ~kwargs.nomodel
       THEN \E failing \in SUBSET (1..MaxFailQC) :
              LET q == quality_check(failing)
              IN /\ qc_info' = DataFrame(edata.col_labels,
                                         FloatColumn(q.scores),
                                         BoolColumn(q.passes))     \* line 136
                 /\ IF kwargs.qc
                    THEN /\ Models' = [m \in DOMAIN Models |->
                                        [Models[m] EXCEPT
                                           !.Data = subset_samples(@, q.passes)]]
                         /\ sample_qc_scores' =
                              Some(Restrict(q.scores,
                                     {s \in DOMAIN q.scores.other : At(q.passes, s)}))
                                                                          \* line 144
                    ELSE /\ Models' = Models
                         /\ sample_qc_scores' = Some(q.scores)
       ELSE /\ sample_qc_scores' = None                                  \* line 146
            /\ qc_info' = DataFrame(edata.col_labels,
                                    Column(PyFloat(0), <<>>),
                                    Column(PyFloat(0), <<>>))             \* line 148
            /\ Models' = Models
    /\ edata' = Models'["Expression"].Data                               \* line 151
    /\ stagesRun' = Append(stagesRun, "QC")
    /\ pc' = "Background"
    /\ UNCHANGED <<args, kwargs, all_data, signatures, precomputed_signatures, holdouts,
                   random_sigs, filter_i, prePrune, returned>>

\* ---------------------------------------------------------- lines 183-193
\* random.sample(population, k) raises ValueError when k exceeds the population
SampleTooLarge(numGenes, size) == size > numGenes

Background ==
    /\ pc = "Background"
    /\ IF \E i \in 1..Len(BG_SIZES) : SampleTooLarge(edata.numGenes, BG_SIZES[i])
       THEN /\ pc' = "Failed"
            /\ random_sigs' = random_sigs
       ELSE /\ pc' = "Score"
            /\ random_sigs' = [i \in 1..Len(BG_SIZES) |->
                                 [size |-> BG_SIZES[i], count |-> BG_REPEATS]]
    /\ stagesRun' = Append(stagesRun, "Background")
    /\ UNCHANGED <<args, kwargs, all_data, signatures, precomputed_signatures, edata,
                   holdouts, Models, qc_info, sample_qc_scores, filter_i, prePrune,
                   returned>>

\* ---------------------------------------------------------- lines 195-271
\* d[name] = value on an insertion-ordered dict held as a list of values
DictIndex(d, name) ==
    LET hits == {i \in 1..Len(d) : d[i].name = name}
    IN IF hits = {} THEN 0 ELSE CHOOSE i \in hits : TRUE

DictSet(d, value) ==
    LET i == DictIndex(d, value.name)
    IN IF i = 0 THEN Append(d, value) ELSE [d EXCEPT ![i] = value]

RECURSIVE DictUpdate(_, _)
DictUpdate(d, other) ==
    IF other = <<>> THEN d ELSE DictUpdate(DictSet(d, Head(other)), Tail(other))

\* sig_score_method(...) raises ValueError for a signature with too few genes in the data
CoverageError(overlap, min_signature_genes) == overlap < min_signature_genes

\* a loop whose except clause ends the batch at the first signature that fails
ScoreSignatures_AbortBatch(sigs, min_signature_genes) ==
    LET failing == {i \in 1..Len(sigs) : CoverageError(sigs[i].overlap, min_signature_genes)}
        upto == IF failing = {} THEN Len(sigs)
                ELSE (CHOOSE i \in failing : \A j \in failing : i <= j) - 1
    IN [i \in 1..upto |-> SignatureScores(sigs[i].name, FALSE, sigs[i].overlap)]

\* lines 238-247: the try/except loop over the real signatures
\* sig_scores_dict[sig.name] = ... assigns by key: a name keeps the position of its
\* first score and the value of its last one
ScoreSignatures(sigs, min_signature_genes) ==
    LET covered == SelectSeq(sigs, LAMBDA sig :
                       ~CoverageError(sig.overlap, min_signature_genes))
        n == Len(covered)
        same(i) == {j \in 1..n : covered[j].name = covered[i].name}
        firsts == SelectSeq([i \in 1..n |-> i],
                            LAMBDA i : \A j \in same(i) : i <= j)
        last(i) == CHOOSE j \in same(i) : \A k \in same(i) : k <= j
    IN Tuple([r \in 1..Len(firsts) |->
                SignatureScores(covered[firsts[r]].name, FALSE,
                                covered[last(firsts[r])].overlap)])

\* both injected scores under the test of sample_qc_scores
InjectPrecomputed_BothGuarded(scored, precomputed, qc_scores) ==
    LET d1 == DictUpdate(scored, precomputed)
    IN IF qc_scores # None
       THEN DictSet(DictSet(d1, SignatureScores(FP_Quality, TRUE, 0)),
                    SignatureScores(Zero_Proportion, TRUE, 0))
       ELSE d1

\* lines 260-267
InjectPrecomputed(scored, precomputed, qc_scores) ==
    LET d1 == DictUpdate(scored, precomputed)
        d2 == IF qc_scores # None
              THEN DictSet(d1, SignatureScores(FP_Quality, TRUE, 0))
              ELSE d1
    IN DictSet(d2, SignatureScores(Zero_Proportion, TRUE, 0))

ScoreModel(model) ==
    [model EXCEPT
       !.signatureScores =
           InjectPrecomputed(ScoreSignatures(signatures, kwargs.min_signature_genes),
                             precomputed_signatures, sample_qc_scores),
       !.projectionData = <<>>,
       !.sampleLabels = model.Data.col_labels]

Score ==
    /\ pc = "Score"
    /\ IF kwargs.sig_norm_method \notin NORM_METHODS       \* line 218: name never bound
          \/ kwargs.sig_score_method \notin SCORE_METHODS  \* line 243 / 254
       THEN /\ pc' = "Failed"
            /\ Models' = Models
            /\ filter_i' = filter_i
       ELSE /\ pc' = "Project"
            /\ Models' = [m \in DOMAIN Models |-> ScoreModel(Models[m])]
            /\ filter_i' = 1
    /\ stagesRun' = Append(stagesRun, "Score")
    /\ UNCHANGED <<args, kwargs, all_data, signatures, precomputed_signatures, edata,
                   holdouts, qc_info, sample_qc_scores, random_sigs, prePrune, returned>>

\* ---------------------------------------------------------- lines 273-333
\* Signatures.sigs_vs_projections(projections, sig_scores_dict, random_sig_scores_dict)
\* -> (row labels, column labels, consistency matrix, p-value matrix).
\* One row per key of sig_scores_dict.  What the engine computes is an input of
\* the model: a pattern fixes the row order and the p-value of every cell.
PROJECTION_KEYS == <<"PCA", "tSNE">>

RawPatterns == [kind : {"asc", "desc", "tied"}, base : {0, -50}, order : {"dict"}]
PcaPatterns == [kind : {"asc", "tied"}, base : {0}, order : {"reversed"}]
                 \cup [kind : {"desc"}, base : {-50}, order : {"reversed"}]

\* the p-value of the i-th signature of the dict (of n) against projection c
PValue(pat, i, n, c) ==
    LET v == CASE pat.kind = "asc"  -> pat.base - n + i
               [] pat.kind = "desc" -> pat.base + 1 - i
               [] pat.kind = "tied" -> pat.base
        w == IF c = 2 THEN v + 3 - 3 * (i % 3) ELSE v
    IN Min2(0, w)

\* the consistency statistic of the same cell
Consistency(i, c) == 10 * i + c

sigs_vs_projections(sig_scores_dict, pat) ==
    LET n == Len(sig_scores_dict)
        at(r) == IF pat.order = "dict" THEN r ELSE n + 1 - r
        cols == 1..Len(PROJECTION_KEYS)
    IN [sp_row_labels |-> [r \in 1..n |-> sig_scores_dict[at(r)].name],
        sp_col_labels |-> PROJECTION_KEYS,
        sig_proj_matrix |-> [r \in 1..n |-> [c \in cols |-> Consistency(at(r), c)]],
        sig_proj_matrix_p |-> [r \in 1..n |-> [c \in cols |-> PValue(pat, at(r), n, c)]]]

ProjData(filter_name, pca, sp) ==
    [filter |-> filter_name, pca |-> pca,
     sigProjMatrix |-> sp.sig_proj_matrix,
     sigProjMatrix_p |-> sp.sig_proj_matrix_p,
     projectionKeys |-> sp.sp_col_labels,
     signatureKeys |-> sp.sp_row_labels]

\* one pass of the loop over data.filters: the raw record, then the PCA record
ProjectFilter(model, filter_name, patRaw, patPca) ==
    LET raw == ProjData(filter_name, FALSE,
                        sigs_vs_projections(model.signatureScores, patRaw))
        red == ProjData(filter_name, TRUE,
                        sigs_vs_projections(model.signatureScores, patPca))
    IN [model EXCEPT !.projectionData = Append(Append(@, raw), red)]

Project ==
    /\ pc = "Project"
    /\ \E patRaw \in RawPatterns, patPca \in PcaPatterns :
         Models' = [m \in DOMAIN Models |->
                      ProjectFilter(Models[m], Models[m].Data.filters[filter_i],
                                    patRaw, patPca)]
    /\ IF filter_i < Len(Models["Expression"].Data.filters)
       THEN /\ filter_i' = filter_i + 1
            /\ pc' = "Project"
            /\ stagesRun' = stagesRun
       ELSE /\ filter_i' = filter_i
            /\ pc' = "Prune"
            /\ stagesRun' = Append(stagesRun, "Project")
    /\ UNCHANGED <<args, kwargs, all_data, signatures, precomputed_signatures, edata,
                   holdouts, qc_info, sample_qc_scores, random_sigs, prePrune, returned>>

\* ---------------------------------------------------------- lines 336-382
\* a pandas Series with a label index, as label -> value, built by halving
RECURSIVE SeriesOf(_, _, _, _)
SeriesOf(index, values, lo, hi) ==
    IF lo > hi THEN <<>>
    ELSE IF lo = hi THEN index[lo] :> values[lo]
    ELSE LET mid == (lo + hi) \div 2
         IN SeriesOf(index, values, lo, mid) @@ SeriesOf(index, values, mid + 1, hi)

Series(index, values) == SeriesOf(index, values, 1, Len(index))

SetMin(S) == CHOOSE x \in S : \A y \in S : x <= y

\* line 341: the row minimum of one record's p-values, by signature name
RowMin(projData) ==
    Series(projData.signatureKeys,
           Tuple([r \in 1..Len(projData.signatureKeys) |->
                    SeqMin(projData.sigProjMatrix_p[r])]))

\* lines 339-344: concat on the label index, then the minimum across the records
signature_significance(projectionData) ==
    LET sp == Tuple([k \in 1..Len(projectionData) |-> RowMin(projectionData[k])])
        names == UNION {DOMAIN sp[k] : k \in 1..Len(projectionData)}
    IN Table([name \in names |->
                SetMin({sp[k][name] : k \in {j \in 1..Len(projectionData) :
                                                 name \in DOMAIN sp[j]}})])

\* np.argsort: the positions of the values in ascending order of value
ArgSort(values) ==
    SortSeq([i \in 1..Len(values) |-> i], LAMBDA a, b : values[a] < values[b])

\* the flag all_sigs left untested
Threshold_IgnoreAllSigs(values, all_sigs, numSamples) ==
    LET limit == Min2(SIGNATURE_LIMIT, Len(values))
        ranked == values[ArgSort(values)[limit]]
    IN IF numSamples > LARGE_DATASET
       THEN ranked
       ELSE IF ranked > DEFAULT_THRESHOLD THEN ranked ELSE DEFAULT_THRESHOLD

\* the default threshold never raised to the value at rank limit
Threshold_NeverRaised(values, all_sigs, numSamples) ==
    IF all_sigs
    THEN KEEP_ALL_THRESHOLD
    ELSE IF numSamples > LARGE_DATASET
         THEN values[ArgSort(values)[Min2(SIGNATURE_LIMIT, Len(values))]]
         ELSE DEFAULT_THRESHOLD

\* the rank taken one position early
Threshold_OffByOne(values, all_sigs, numSamples) ==
    IF all_sigs
    THEN KEEP_ALL_THRESHOLD
    ELSE LET limit == Min2(SIGNATURE_LIMIT, Len(values))
             ranked == values[ArgSort(values)[IF limit > 1 THEN limit - 1 ELSE limit]]
         IN IF numSamples > LARGE_DATASET
            THEN ranked
            ELSE IF ranked > DEFAULT_THRESHOLD THEN ranked ELSE DEFAULT_THRESHOLD

\* lines 346-361; positions are 1-based here, so aa[LIMIT - 1] is aa[limit]
Threshold(values, all_sigs, numSamples) ==
    IF all_sigs
    THEN KEEP_ALL_THRESHOLD
    ELSE LET limit == Min2(SIGNATURE_LIMIT, Len(values))
             aa == ArgSort(values)
             ranked == values[aa[limit]]
         IN IF numSamples > LARGE_DATASET
            THEN ranked
            ELSE IF ranked > DEFAULT_THRESHOLD THEN ranked ELSE DEFAULT_THRESHOLD

\* the test of isPrecomputed left out
KeepSig_NoImmunity(sig_score, significance, threshold) ==
    ~(significance[sig_score.name] > threshold)

\* lines 365-370
KeepSig(sig_score, significance, threshold) ==
    ~(~sig_score.isPrecomputed /\ significance[sig_score.name] > threshold)

\* lines 373-375: pop while iterating signatureScores.items().  Where items() is a
\* copy (Python 2) every dropped entry goes; where it is a live view (Python 3) the
\* step after the first pop raises RuntimeError.
PopDropped(signatureScores, keep, itemsIsView) ==
    LET dropped == {i \in 1..Len(signatureScores) : signatureScores[i].name \notin keep}
        first == SetMin(dropped)
    IN IF dropped = {} THEN [scores |-> signatureScores, raised |-> FALSE]
       ELSE IF itemsIsView
       THEN [scores |-> SubSeq(signatureScores, 1, first - 1)
                        \o SubSeq(signatureScores, first + 1, Len(signatureScores)),
             raised |-> TRUE]
       ELSE [scores |-> SelectSeq(signatureScores, LAMBDA x : x.name \in keep),
             raised |-> FALSE]

\* line 379: the boolean mask, as the positions it keeps
KeepMask(keys, keep) == SelectSeq([r \in 1..Len(keys) |-> r], LAMBDA r : keys[r] \in keep)

\* rows[mask, :]
MaskRows(rows, mask) == [k \in 1..Len(mask) |-> rows[mask[k]]]

\* the p-value matrix left unmasked
PruneProjData_Partial(projData, keep) ==
    LET projData_keep_sig == KeepMask(projData.signatureKeys, keep)
    IN [projData EXCEPT
          !.sigProjMatrix = MaskRows(projData.sigProjMatrix, projData_keep_sig),
          !.signatureKeys = SelectSeq(projData.signatureKeys, LAMBDA x : x \in keep)]

\* lines 378-382
PruneProjData(projData, keep) ==
    LET projData_keep_sig == KeepMask(projData.signatureKeys, keep)
    IN [projData EXCEPT
          !.sigProjMatrix = MaskRows(projData.sigProjMatrix, projData_keep_sig),
          !.sigProjMatrix_p = MaskRows(projData.sigProjMatrix_p, projData_keep_sig),
          !.signatureKeys = SelectSeq(projData.signatureKeys, LAMBDA x : x \in keep)]

\* lines 337-370: the names the dict keep_sig maps to True
KeepSet(model, all_sigs, numSamples) ==
    LET significance == signature_significance(model.projectionData)
        index == model.projectionData[1].signatureKeys
        values == Tuple([r \in 1..Len(index) |-> significance[index[r]]])
        threshold == Threshold(values, all_sigs, numSamples)
    IN {model.signatureScores[i].name : i \in
          {j \in 1..Len(model.signatureScores) :
             KeepSig(model.signatureScores[j], significance, threshold)}}

\* lines 372-382
PruneModel(model, keep, itemsIsView) ==
    LET popped == PopDropped(model.signatureScores, keep, itemsIsView)
    IN IF popped.raised
       THEN [model |-> [model EXCEPT !.signatureScores = popped.scores], raised |-> TRUE]
       ELSE [model |-> [model EXCEPT
                          !.signatureScores = popped.scores,
                          !.projectionData = [k \in 1..Len(@) |->
                                                PruneProjData(@[k], keep)]],
             raised |-> FALSE]

Prune ==
    /\ pc = "Prune"
    /\ prePrune' = Models
    /\ LET keep == Table([m \in DOMAIN Models |->
                            KeepSet(Models[m], kwargs.all_sigs, all_data.numSamples)])
       IN \E itemsIsView \in BOOLEAN :
            LET out == Table([m \in DOMAIN Models |->
                                PruneModel(Models[m], keep[m], itemsIsView)])
            IN /\ Models' = [m \in DOMAIN Models |-> out[m].model]
               /\ pc' = IF \E m \in DOMAIN Models : out[m].raised
                        THEN "Failed" ELSE "MergeHoldouts"
    /\ stagesRun' = Append(stagesRun, "Prune")
    /\ UNCHANGED <<args, kwargs, all_data, signatures, precomputed_signatures, edata,
                   holdouts, qc_info, sample_qc_scores, random_sigs, filter_i, returned>>

\* ---------------------------------------------------------- lines 385-388
\* SubSample.merge_samples(all_data, Models, ...): folds the held-out samples back in
merge_samples(model, held) ==
    [model EXCEPT !.Data.col_labels = @ \cup held, !.sampleLabels = @ \cup held]

MergeHoldouts ==
    /\ pc = "MergeHoldouts"
    /\ IF kwargs.subsample_size # None
       THEN /\ Models' = [m \in DOMAIN Models |-> merge_samples(Models[m], holdouts[1])]
            /\ stagesRun' = Append(stagesRun, "MergeHoldouts")
       ELSE /\ Models' = Models
            /\ stagesRun' = stagesRun
    /\ pc' = "ReorderGenes"
    /\ UNCHANGED <<args, kwargs, all_data, signatures, precomputed_signatures, edata,
                   holdouts, qc_info, sample_qc_scores, random_sigs, filter_i, prePrune,
                   returned>>

\* ---------------------------------------------------------- lines 390-402
\* the leaf order only permutes the gene rows, which the model does not hold
ReorderGenes ==
    /\ pc = "ReorderGenes"
    /\ edata' = Models["Expression"].Data
    /\ stagesRun' = Append(stagesRun, "ReorderGenes")
    /\ returned' = TRUE
    /\ pc' = "Done"
    /\ UNCHANGED <<args, kwargs, all_data, signatures, precomputed_signatures, holdouts,
                   Models, qc_info, sample_qc_scores, random_sigs, filter_i, prePrune>>

Next ==
    \/ Subsample
    \/ Filter
    \/ QC
    \/ Background
    \/ Score
    \/ Project
    \/ Prune
    \/ MergeHoldouts
    \/ ReorderGenes

Spec == Init /\ [][Next]_vars
\* ==================================================================== claims
Names(scores) == {scores[i].name : i \in 1..Len(scores)}
NonPrecomputed(scores) ==
    {scores[i].name : i \in {j \in 1..Len(scores) : ~scores[j].isPrecomputed}}
Precomputed(scores) ==
    {scores[i].name : i \in {j \in 1..Len(scores) : scores[j].isPrecomputed}}

Scored == pc \in {"Project", "Prune", "MergeHoldouts", "ReorderGenes", "Done"}
AfterPrune == pc \in {"MergeHoldouts", "ReorderGenes", "Done"}
SomethingDropped(m) == Len(Models[m].signatureScores) < Len(prePrune[m].signatureScores)

\* rows of one record, each with its key: <<signatureKeys[r], sigProjMatrix[r], sigProjMatrix_p[r]>>
KeyedRows(projData) ==
    [r \in 1..Len(projData.signatureKeys) |->
       <<projData.signatureKeys[r], projData.sigProjMatrix[r], projData.sigProjMatrix_p[r]>>]

\* C1: after Prune, in every Model and every ProjectionData, signatureKeys and both
\* matrices have the same number of rows, every row is the row its key had before
\* Prune, every key is a key of signatureScores, and the records keep exactly the
\* rows of the signatures that signatureScores keeps.
C1_PruneConsistent ==
    AfterPrune =>
      \A m \in DOMAIN Models :
        LET kept == Names(Models[m].signatureScores)
        IN \A k \in 1..Len(Models[m].projectionData) :
             LET post == Models[m].projectionData[k]
                 pre == prePrune[m].projectionData[k]
             IN /\ Len(post.signatureKeys) = Len(post.sigProjMatrix)
                /\ Len(post.signatureKeys) = Len(post.sigProjMatrix_p)
                /\ Range(post.signatureKeys) \subseteq kept
                /\ Tuple(KeyedRows(post))
                     = SelectSeq(Tuple(KeyedRows(pre)), LAMBDA t : t[1] \in kept)

C1_Witness ==
    /\ pc = "MergeHoldouts"
    /\ SomethingDropped("Expression")
    /\ Len(Models["Expression"].projectionData[2].signatureKeys)
         = Len(Models["Expression"].signatureScores)
    /\ Len(Models["Expression"].signatureScores) > SIGNATURE_LIMIT
\* the per-signature minimum p-value across the records Prune found
PreSignificance(m) == signature_significance(prePrune[m].projectionData)

\* the values of a significance table, lowest first
SortedValues(sig, index) ==
    SortSeq(Tuple([r \in 1..Len(index) |-> sig[index[r]]]), LAMBDA a, b : a < b)

\* K = min(200, number of signature rows) and the K-th lowest minimum p-value
RankK(m) == Min2(SIGNATURE_LIMIT, Len(prePrune[m].projectionData[1].signatureKeys))
KthLowest(sig, m) == SortedValues(sig, prePrune[m].projectionData[1].signatureKeys)[RankK(m)]

Max2(a, b) == IF a >= b THEN a ELSE b

\* C2: a precomputed SignatureScore in a Model before Prune is in it after Prune, and
\* its row stays in every ProjectionData, whatever its p-values and the threshold.
C2_PrecomputedImmune ==
    AfterPrune =>
      \A m \in DOMAIN Models :
        /\ {x \in Range(prePrune[m].signatureScores) : x.isPrecomputed}
             \subseteq Range(Models[m].signatureScores)
        /\ \A k \in 1..Len(prePrune[m].projectionData) :
             Precomputed(prePrune[m].signatureScores)
               \cap Range(prePrune[m].projectionData[k].signatureKeys)
               \subseteq Range(Models[m].projectionData[k].signatureKeys)

\* a precomputed signature survived although a signature with a p-value no worse was dropped
C2_Witness ==
    /\ pc = "MergeHoldouts"
    /\ SomethingDropped("Expression")
    /\ LET sig == PreSignificance("Expression")
           dropped == Names(prePrune["Expression"].signatureScores)
                        \ Names(Models["Expression"].signatureScores)
       IN \E x \in Precomputed(Models["Expression"].signatureScores), y \in dropped :
            sig[x] > sig[y]

\* C3 as claimed: with at most 2000 samples and all_sigs false, the number of
\* non-precomputed signatures left after Prune is min(200, eligible signatures).
C3_ExactMinimumKeep ==
    (AfterPrune /\ all_data.numSamples <= LARGE_DATASET /\ ~kwargs.all_sigs) =>
      \A m \in DOMAIN Models :
        Cardinality(NonPrecomputed(Models[m].signatureScores))
          = Min2(SIGNATURE_LIMIT, Cardinality(NonPrecomputed(prePrune[m].signatureScores)))

\* C3 amended: with at most 2000 samples and all_sigs false, Prune keeps every
\* precomputed signature and exactly the non-precomputed ones whose minimum p-value
\* is at most max(-1.3, the K-th lowest minimum p-value over all signature rows),
\* K = min(200, rows); at least K signatures remain in signatureScores.
C3_MinimumKeep ==
    (AfterPrune /\ all_data.numSamples <= LARGE_DATASET /\ ~kwargs.all_sigs) =>
      \A m \in DOMAIN Models :
        LET sig == PreSignificance(m)
            cut == Max2(DEFAULT_THRESHOLD, KthLowest(sig, m))
        IN /\ NonPrecomputed(Models[m].signatureScores)
                = {x \in NonPrecomputed(prePrune[m].signatureScores) : sig[x] <= cut}
           /\ Precomputed(Models[m].signatureScores)
                = Precomputed(prePrune[m].signatureScores)
           /\ Len(Models[m].signatureScores) >= RankK(m)

\* precomputed rows among the K lowest leave fewer than 200 of 200 or more eligible
C3_Witness ==
    /\ pc = "MergeHoldouts"
    /\ all_data.numSamples <= LARGE_DATASET
    /\ ~kwargs.all_sigs
    /\ SomethingDropped("Expression")
    /\ Cardinality(NonPrecomputed(prePrune["Expression"].signatureScores)) >= SIGNATURE_LIMIT
    /\ Cardinality(NonPrecomputed(Models["Expression"].signatureScores)) < SIGNATURE_LIMIT

\* C4 as claimed: with more than 2000 samples, all_sigs false and at least 200
\* eligible signatures, exactly 200 non-precomputed signatures remain, the 200 with
\* the lowest minimum p-value.
C4_ExactTopK ==
    (AfterPrune /\ all_data.numSamples > LARGE_DATASET /\ ~kwargs.all_sigs) =>
      \A m \in DOMAIN Models :
        LET before == NonPrecomputed(prePrune[m].signatureScores)
            after == NonPrecomputed(Models[m].signatureScores)
            sig == PreSignificance(m)
        IN Cardinality(before) >= SIGNATURE_LIMIT =>
             /\ Cardinality(after) = SIGNATURE_LIMIT
             /\ \A x \in after, y \in before \ after : sig[x] <= sig[y]

\* C4 amended: under the same conditions the non-precomputed signatures that remain
\* are exactly those whose minimum p-value is at most t, the K-th lowest minimum
\* p-value over all signature rows, precomputed rows included (K = min(200, rows));
\* each has a lower minimum p-value than every dropped one; their number plus the
\* number of precomputed rows at or below t is the number of rows at or below t,
\* which is at least K, and exactly K when no two rows have the same minimum p-value.
C4_TopK ==
    (AfterPrune /\ all_data.numSamples > LARGE_DATASET /\ ~kwargs.all_sigs) =>
      \A m \in DOMAIN Models :
        LET before == NonPrecomputed(prePrune[m].signatureScores)
            after == NonPrecomputed(Models[m].signatureScores)
            sig == PreSignificance(m)
            t == KthLowest(sig, m)
            inRank == Cardinality(after)
                        + Cardinality({x \in Precomputed(prePrune[m].signatureScores) :
                                         sig[x] <= t})
        IN Cardinality(before) >= SIGNATURE_LIMIT =>
             /\ after = {x \in before : sig[x] <= t}
             /\ \A x \in after, y \in before \ after : sig[x] < sig[y]
             /\ inRank = Cardinality({x \in DOMAIN sig : sig[x] <= t})
             /\ inRank >= RankK(m)
             /\ Cardinality({sig[x] : x \in DOMAIN sig}) = Cardinality(DOMAIN sig)
                  => inRank = RankK(m)

\* exactly 200 of more than 200 eligible signatures remain
C4_Witness ==
    /\ pc = "MergeHoldouts"
    /\ all_data.numSamples > LARGE_DATASET
    /\ ~kwargs.all_sigs
    /\ Cardinality(NonPrecomputed(prePrune["Expression"].signatureScores)) > SIGNATURE_LIMIT
    /\ Cardinality(NonPrecomputed(Models["Expression"].signatureScores)) = SIGNATURE_LIMIT

\* C5: a real signature the scoring method fails for coverage is absent from the
\* mapping Score produces, every other signature of the batch is in it, and Score
\* fails only for an unrecognised method name, never for coverage.
C5_CoverageIsolation ==
    /\ pc \in {"Project", "Prune"} =>
         \A m \in DOMAIN Models : \A i \in 1..Len(signatures) :
           CoverageError(signatures[i].overlap, kwargs.min_signature_genes)
             <=> signatures[i].name \notin Names(Models[m].signatureScores)
    /\ (pc = "Failed" /\ stagesRun[Len(stagesRun)] = "Score") =>
         \/ kwargs.sig_norm_method \notin NORM_METHODS
         \/ kwargs.sig_score_method \notin SCORE_METHODS

C5_Witness ==
    /\ pc = "Project"
    /\ \E i, j \in 1..Len(signatures) :
         /\ CoverageError(signatures[i].overlap, kwargs.min_signature_genes)
         /\ signatures[i].name \notin Names(Models["Expression"].signatureScores)
         /\ signatures[j].name \in Names(Models["Expression"].signatureScores)

\* a table cell that reads as the boolean True
IsTrue(v) == v = PyBool(TRUE)

\* C6 as claimed: with nomodel = true the returned QC table gives every sample a
\* score of zero and Passes = true, and no sample is removed from any Model.
C6_NoModelAllPass ==
    (pc = "Done" /\ kwargs.nomodel) =>
      /\ \A s \in qc_info.index :
           At(qc_info.Score, s) = PyFloat(0) /\ IsTrue(At(qc_info.Passes, s))
      /\ \A m \in DOMAIN Models : Models[m].Data.col_labels = 1..all_data.numSamples

\* C7 as claimed: with an unrecognised sig_norm_method or sig_score_method the run
\* fails before any stage has executed and returns no Models.
BadConfig ==
    \/ args.sig_norm_method \notin NORM_METHODS
    \/ args.sig_score_method \notin SCORE_METHODS

C7_ConfigFailFast == BadConfig => (stagesRun = <<>> /\ ~returned /\ pc # "Done")

\* C9 as claimed: with subsample_size configured, Subsample splits off a holdout set
\* and MergeHoldouts folds it back into every Model after Prune and before Done.
C9_SubsampleHoldout ==
    args.subsample_size # None =>
      /\ pc # "Subsample" =>
           /\ holdouts # None
           /\ "Subsample" \in Range(stagesRun)
      /\ pc = "Done" => "MergeHoldouts" \in Range(stagesRun)

\* C10 as claimed: under every configuration Score gives every Model both FP_Quality
\* and Zero_Proportion, precomputed, and both are still there at Done.
C10_BothInjected ==
    Scored =>
      \A m \in DOMAIN Models :
        {FP_Quality, Zero_Proportion} \subseteq Precomputed(Models[m].signatureScores)

\* C10 amended: Score gives every Model Zero_Proportion under every configuration
\* and FP_Quality exactly when nomodel is false; each is precomputed and is still in
\* the Model's signatureScores at Done.
C10_InjectedScores ==
    Scored =>
      \A m \in DOMAIN Models :
        /\ Zero_Proportion \in Precomputed(Models[m].signatureScores)
        /\ FP_Quality \in Names(Models[m].signatureScores) <=> ~kwargs.nomodel
        /\ FP_Quality \notin NonPrecomputed(Models[m].signatureScores)

C10_Witness ==
    /\ pc = "Done"
    /\ kwargs.nomodel
    /\ SomethingDropped("Expression")
    /\ Zero_Proportion \in Names(Models["Expression"].signatureScores)
    /\ FP_Quality \notin Names(Models["Expression"].signatureScores)

\* C8: with all_sigs = true Prune removes nothing: the keys of signatureScores and,
\* in every ProjectionData, signatureKeys and both matrices are as before Prune.
C8_KeepAllUnchanged ==
    (AfterPrune /\ kwargs.all_sigs) =>
      \A m \in DOMAIN Models :
        /\ Names(Models[m].signatureScores) = Names(prePrune[m].signatureScores)
        /\ \A k \in 1..Len(prePrune[m].projectionData) :
             LET post == Models[m].projectionData[k]
                 pre == prePrune[m].projectionData[k]
             IN /\ post.signatureKeys = pre.signatureKeys
                /\ post.sigProjMatrix = pre.sigProjMatrix
                /\ post.sigProjMatrix_p = pre.sigProjMatrix_p

\* more than 200 signatures, some above the default threshold, all kept
C8_Witness ==
    /\ pc = "MergeHoldouts"
    /\ kwargs.all_sigs
    /\ Len(Models["Expression"].signatureScores) > SIGNATURE_LIMIT
    /\ LET sig == PreSignificance("Expression")
       IN Cardinality({x \in NonPrecomputed(Models["Expression"].signatureScores) :
                         sig[x] > DEFAULT_THRESHOLD}) > 1
====
